---------------------------- MODULE Spec2Model ----------------------------
(***************************************************************************)
(* Mass Effect 1 save container (src/src/save_data/mass_effect_1.rs).      *)
(*                                                                         *)
(* A save file is an 8-byte marker, a little-endian u32 zip_offset, an     *)
(* uninterpreted region up to zip_offset, and a zip archive that holds     *)
(* player.sav, state.sav and optionally WorldSavePackage.sav.              *)
(* Me1SaveGame::deserialize reads it, Me1SaveGame::serialize writes it.    *)
(*                                                                         *)
(* The byte cursor (SaveCursor), the primitive codecs (Dummy<8>, u32) and  *)
(* the Player / State codecs live in other files of the repository; the    *)
(* zip reader and writer are a library.  They are modelled after section 4 *)
(* of the specification and are marked so in the model map.                *)
(***************************************************************************)
EXTENDS Integers, Sequences, FiniteSets, TLC

\* ------------------------------------------------------------------ bounds

\* How many bytes the stored zip_offset may fall short of the 12-byte header.
MaxUnder == 2
\* Longest uninterpreted region between the header and the archive.
MaxRegion == 2
\* Decode/encode generations the driver runs (the repository's test runs 2).
MaxGen == 2
\* The machine word of the model: usize arithmetic wraps modulo this.
UsizeModulus == 65536

\* ------------------------------------------------------- program constants

\* Dummy<8>: the leading marker is 8 bytes.
BeginLen == 8
\* size of the marker plus the u32 zip_offset, subtracted at line 33.
HeaderLen == 12

PlayerName == "player.sav"
StateName == "state.sav"
WorldName == "WorldSavePackage.sav"

\* ------------------------------------------------------------ byte helpers

Min(a, b) == IF a < b THEN a ELSE b

Take(s, n) == SubSeq(s, 1, Min(n, Len(s)))

Drop(s, n) == SubSeq(s, Min(n, Len(s)) + 1, Len(s))

\* ------------------------------------------------------------- SaveCursor

NewCursor(bytes) == [bytes |-> bytes, position |-> 0]

Remaining(cur) == Len(cur.bytes) - cur.position

\* cursor.read(n): the next n bytes, or a failure when fewer remain.
CursorRead(cur, n) ==
    IF n > Remaining(cur)
    THEN [ok |-> FALSE, bytes |-> <<>>, cur |-> cur]
    ELSE [ok |-> TRUE,
          bytes |-> SubSeq(cur.bytes, cur.position + 1, cur.position + n),
          cur |-> [cur EXCEPT !.position = cur.position + n]]

\* cursor.read_to_end(): everything that remains; never fails.
CursorReadToEnd(cur) ==
    [ok |-> TRUE,
     bytes |-> SubSeq(cur.bytes, cur.position + 1, Len(cur.bytes)),
     cur |-> [cur EXCEPT !.position = Len(cur.bytes)]]

\* ------------------------------------------------------- primitive codecs

\* <u32 as SaveData>::serialize: four bytes, least significant first.
U32ToBytes(v) ==
    << v % 256, (v \div 256) % 256, (v \div 65536) % 256, (v \div 16777216) % 256 >>

\* <u32 as SaveData>::deserialize on the four bytes read.
U32FromBytes(b) == b[1] + 256 * b[2] + 65536 * b[3] + 16777216 * b[4]


\* ------------------------------------------- nested collaborators (codecs)

\* Player and State are records of the repository's other files.  Here each
\* is one boolean stored in one byte: any non-zero byte decodes to TRUE and
\* TRUE encodes to 1, so a decoded record re-encodes to bytes that may differ
\* from the ones read but decode to the same record.
FlagDecode(bytes) ==
    LET r == CursorRead(NewCursor(bytes), 1)
    IN  IF r.ok THEN [ok |-> TRUE, value |-> [flag |-> r.bytes[1] # 0]]
                ELSE [ok |-> FALSE, value |-> [flag |-> FALSE]]

FlagEncode(v) == IF v.flag THEN <<1>> ELSE <<0>>

PlayerDecode(bytes) == FlagDecode(bytes)

PlayerEncode(p) == FlagEncode(p)

StateDecode(bytes) == FlagDecode(bytes)

StateEncode(s) == FlagEncode(s)

\* ------------------------------------------------------------ zip archive

\* An archive is its entries, each a local record
\*     LocalSig, name id, method, payload length, payload...
\* followed by an end record
\*     EndSig, number of entries, length of the entry records.
\* A reader finds the end record at the end of the bytes and the entry
\* records right before it; bytes in front of them are ignored.  A writer
\* that was never finalized has written no end record.
LocalSig == 201
EndSig == 202
MethodStored == 0
MethodDeflate == 8
\* The level the writer compresses with.
DefaultLevel == 6

NameId(name) ==
    CASE name = PlayerName -> 1
      [] name = StateName -> 2
      [] name = WorldName -> 3
      [] OTHER -> 0

NameOfId(id) ==
    CASE id = 1 -> PlayerName
      [] id = 2 -> StateName
      [] id = 3 -> WorldName
      [] OTHER -> "?"

\* Deflate, as far as the container can tell: a level byte, then the data
\* bytes shifted by one.  Streams of different levels inflate to the same data.
Deflate(data, level) == <<level>> \o [i \in 1..Len(data) |-> data[i] + 1]

Inflate(payload) ==
    IF Len(payload) = 0 \/ \E i \in 2..Len(payload) : payload[i] = 0
    THEN [ok |-> FALSE, data |-> <<>>]
    ELSE [ok |-> TRUE, data |-> [i \in 1..(Len(payload) - 1) |-> payload[i + 1] - 1]]

Compress(data, method, level) ==
    IF method = MethodDeflate THEN Deflate(data, level) ELSE data

Decompress(payload, method) ==
    IF method = MethodDeflate THEN Inflate(payload)
    ELSE IF method = MethodStored THEN [ok |-> TRUE, data |-> payload]
    ELSE [ok |-> FALSE, data |-> <<>>]

\* One entry's local record.
EntryBytes(name, data, method, level) ==
    LET payload == Compress(data, method, level)
    IN  <<LocalSig, NameId(name), method, Len(payload)>> \o payload

EndRecord(count, size) == <<EndSig, count, size>>

RECURSIVE ParseEntries(_)
\* The entry records of an archive body: [ok, entries], each entry
\* [name, method, payload].
ParseEntries(b) ==
    IF Len(b) = 0 THEN [ok |-> TRUE, entries |-> <<>>]
    ELSE IF Len(b) < 4 \/ b[1] # LocalSig \/ b[4] < 0 \/ Len(b) < 4 + b[4]
    THEN [ok |-> FALSE, entries |-> <<>>]
    ELSE LET rest == ParseEntries(SubSeq(b, 5 + b[4], Len(b)))
             e == [name |-> NameOfId(b[2]), method |-> b[3],
                   payload |-> SubSeq(b, 5, 4 + b[4])]
         IN  IF rest.ok THEN [ok |-> TRUE, entries |-> <<e>> \o rest.entries]
                        ELSE rest

\* ZipArchive::new(bytes).
ZipOpen(bytes) ==
    LET n == Len(bytes)
    IN  IF n < 3 \/ bytes[n - 2] # EndSig \/ bytes[n] < 0 \/ bytes[n] > n - 3
        THEN [ok |-> FALSE, entries |-> <<>>]
        ELSE LET body == SubSeq(bytes, n - 2 - bytes[n], n - 3)
                 p == ParseEntries(body)
             IN  IF p.ok /\ Len(p.entries) = bytes[n - 1] THEN p
                 ELSE [ok |-> FALSE, entries |-> <<>>]

\* zip.file_names()
ZipFileNames(zip) == {zip.entries[i].name : i \in 1..Len(zip.entries)}

\* zip.by_name(name)?.read_to_end(&mut bytes): "absent" when no entry has the
\* name, "bad" when its payload does not decompress.
ZipByName(zip, name) ==
    LET idx == {i \in 1..Len(zip.entries) : zip.entries[i].name = name}
    IN  IF idx = {} THEN [status |-> "absent", data |-> <<>>]
        ELSE LET i == CHOOSE j \in idx : \A k \in idx : k <= j
                 d == Decompress(zip.entries[i].payload, zip.entries[i].method)
             IN  IF d.ok THEN [status |-> "ok", data |-> d.data]
                         ELSE [status |-> "bad", data |-> <<>>]

\* ZipWriter::new over an empty buffer.
ZipWriterNew == [buf |-> <<>>, count |-> 0, closed |-> FALSE]

\* zipper.start_file(name, options) followed by zipper.write_all(data), with
\* options = deflate.  Nothing is written once the writer is closed.
ZipWriteFile(w, name, data) ==
    IF w.closed THEN w
    ELSE [w EXCEPT !.buf = w.buf \o EntryBytes(name, data, MethodDeflate, DefaultLevel),
                   !.count = w.count + 1]

\* The writer's finalization (ZipWriter::finish, which its Drop runs when the
\* writer goes out of scope unfinished): the end record, once.
ZipFinalize(w) ==
    IF w.closed THEN w
    ELSE [w EXCEPT !.buf = w.buf \o EndRecord(w.count, Len(w.buf)), !.closed = TRUE]

\* ------------------------------------------------------- WorldSavePackage

\* WorldSavePackage::deserialize: all the bytes of its cursor, uninterpreted.
WorldDeserialize(cur) == [data |-> CursorReadToEnd(cur).bytes]

\* Mutant of WorldSerialize: the bytes are appended twice.
WorldSerializeTwice(w, output) == output \o w.data \o w.data

\* WorldSavePackage::serialize: the bytes, appended to the output.
WorldSerialize(w, output) == output \o w.data

\* ------------------------------------------------ Me1SaveGame::deserialize

\* What a call returns: tag "Ok" with the value in save (a one-element
\* sequence), tag "Err" with the kind of the failure the ? operator passed on
\* and the entry it arose at, or tag "Panic" when the call unwinds.
Ok(v) == [tag |-> "Ok", kind |-> "", name |-> "", save |-> <<v>>]

Err(kind, name) == [tag |-> "Err", kind |-> kind, name |-> name, save |-> <<>>]

Panic(kind) == [tag |-> "Panic", kind |-> kind, name |-> "", save |-> <<>>]

\* let _begin: Dummy<8> = SaveData::deserialize(cursor)?
ReadBegin(cur) == CursorRead(cur, BeginLen)

\* let zip_offset: u32 = SaveData::deserialize(cursor)?
ReadZipOffset(cur) ==
    LET r == CursorRead(cur, 4)
    IN  [ok |-> r.ok, value |-> IF r.ok THEN U32FromBytes(r.bytes) ELSE 0, cur |-> r.cur]

\* Mutant of NoMansLandLen: subtracts the marker's 8 bytes, not the header's 12.
NoMansLandLenLessMarker(zip_offset, checks) ==
    IF zip_offset >= BeginLen THEN [ok |-> TRUE, n |-> zip_offset - BeginLen]
    ELSE IF checks THEN [ok |-> FALSE, n |-> 0]
    ELSE [ok |-> TRUE, n |-> (zip_offset - BeginLen) % UsizeModulus]

\* zip_offset as usize - 12.  Below 12 the subtraction overflows: a build with
\* overflow checks panics, a build without them wraps around.
NoMansLandLen(zip_offset, checks) ==
    IF zip_offset >= HeaderLen THEN [ok |-> TRUE, n |-> zip_offset - HeaderLen]
    ELSE IF checks THEN [ok |-> FALSE, n |-> 0]
    ELSE [ok |-> TRUE, n |-> (zip_offset - HeaderLen) % UsizeModulus]

\* Mutant of ReadNoMansLand: reads what is there when less than n remains.
ReadNoMansLandClamped(cur, n) == CursorRead(cur, Min(n, Remaining(cur)))

\* cursor.read(zip_offset as usize - 12)?.to_owned()
ReadNoMansLand(cur, n) == CursorRead(cur, n)

\* Mutant of RequiredEntry: an absent entry yields a default record instead of
\* the failure.
RequiredEntryOrDefault(zip, name, decoded) ==
    LET e == ZipByName(zip, name)
    IN  IF e.status = "absent" THEN Ok([flag |-> FALSE])
        ELSE IF e.status = "bad" THEN Err("CorruptArchive", name)
        ELSE IF ~decoded.ok THEN Err("NestedDecodeError", name)
        ELSE Ok(decoded.value)

\* The block that reads one required entry and decodes it: by_name's error
\* for an absent entry and the codec's error are each passed on by a ?.
RequiredEntry(zip, name, decoded) ==
    LET e == ZipByName(zip, name)
    IN  IF e.status = "absent" THEN Err("MissingRequiredEntry", name)
        ELSE IF e.status = "bad" THEN Err("CorruptArchive", name)
        ELSE IF ~decoded.ok THEN Err("NestedDecodeError", name)
        ELSE Ok(decoded.value)

ReadPlayer(zip) ==
    RequiredEntry(zip, PlayerName, PlayerDecode(ZipByName(zip, PlayerName).data))

ReadState(zip) ==
    RequiredEntry(zip, StateName, StateDecode(ZipByName(zip, StateName).data))

\* Mutant of ReadWorldSavePackage: an absent entry becomes an empty package.
ReadWorldSavePackageAlways(zip) ==
    LET e == ZipByName(zip, WorldName)
    IN  IF e.status = "bad" THEN Err("CorruptArchive", WorldName)
        ELSE Ok(WorldDeserialize(NewCursor(e.data)))

\* The optional entry: Ok with a package, Ok with none, or the failure.
ReadWorldSavePackage(zip) ==
    IF WorldName \in ZipFileNames(zip)
    THEN LET e == ZipByName(zip, WorldName)
         IN  IF e.status # "ok" THEN Err("CorruptArchive", WorldName)
             ELSE Ok(WorldDeserialize(NewCursor(e.data)))
    ELSE [tag |-> "Ok", kind |-> "", name |-> "", save |-> <<>>]

\* The archive part of deserialize, from the cursor left after the region.
ReadArchive(cur, begin, zip_offset, no_mans_land) ==
    LET zip == ZipOpen(CursorReadToEnd(cur).bytes)
    IN  IF ~zip.ok THEN Err("CorruptArchive", "")
        ELSE LET p == ReadPlayer(zip)
             IN  IF p.tag # "Ok" THEN p
                 ELSE LET s == ReadState(zip)
                      IN  IF s.tag # "Ok" THEN s
                          ELSE LET w == ReadWorldSavePackage(zip)
                               IN  IF w.tag # "Ok" THEN w
                                   ELSE Ok([begin |-> begin,
                                            zip_offset |-> zip_offset,
                                            no_mans_land |-> no_mans_land,
                                            player |-> p.save[1],
                                            state |-> s.save[1],
                                            world_save_package |-> w.save])

\* Me1SaveGame::deserialize on a fresh cursor over buf.
Deserialize(buf, checks) ==
    LET b == ReadBegin(NewCursor(buf))
    IN  IF ~b.ok THEN Err("TruncatedInput", "")
        ELSE LET z == ReadZipOffset(b.cur)
             IN  IF ~z.ok THEN Err("TruncatedInput", "")
                 ELSE LET l == NoMansLandLen(z.value, checks)
                      IN  IF ~l.ok THEN Panic("SubtractOverflow")
                          ELSE LET n == ReadNoMansLand(z.cur, l.n)
                               IN  IF ~n.ok THEN Err("TruncatedInput", "")
                                   ELSE ReadArchive(n.cur, b.bytes, z.value, n.bytes)

\* ------------------------------------------------------------------ inputs

Markers == {<<1, 2, 3, 4, 5, 6, 7, 8>>, <<8, 7, 6, 5, 4, 3, 2, 1>>}

Offsets == (HeaderLen - MaxUnder)..(HeaderLen + MaxRegion)

Regions == {[i \in 1..r |-> 20 + i] : r \in 0..MaxRegion}

Names == {PlayerName, StateName, WorldName}

\* The entry names of an input archive: any of the three, in any order.
NameLists ==
    {<<>>}
    \cup {<<a>> : a \in Names}
    \cup {<<a, b>> : <<a, b>> \in {x \in Names \X Names : x[1] # x[2]}}
    \cup {<<a, b, c>> : <<a, b, c>> \in
            {x \in Names \X Names \X Names : x[1] # x[2] /\ x[1] # x[3] /\ x[2] # x[3]}}

\* Entry contents: a record that decodes (canonical or not), or none at all.
RecordBytes == {<<>>, <<0>>, <<2>>}

WorldBytes == {<<>>, <<5, 6>>}

\* How the input's entries were compressed: [method, level].
Packings == {<<MethodStored, 0>>, <<MethodDeflate, 1>>, <<MethodDeflate, DefaultLevel>>}

DataOf(name, pb, sb, wb) ==
    CASE name = PlayerName -> pb
      [] name = StateName -> sb
      [] OTHER -> wb

RECURSIVE EntriesBytes(_, _, _, _, _)
EntriesBytes(names, pb, sb, wb, pk) ==
    IF names = <<>> THEN <<>>
    ELSE EntryBytes(Head(names), DataOf(Head(names), pb, sb, wb), pk[1], pk[2])
         \o EntriesBytes(Tail(names), pb, sb, wb, pk)

ArchiveBytes(names, pb, sb, wb, pk) ==
    LET body == EntriesBytes(names, pb, sb, wb, pk)
    IN  body \o EndRecord(Len(names), Len(body))

FileBytes(marker, offset, region, archive) ==
    marker \o U32ToBytes(offset) \o region \o archive

\* Whole files: every header with every archive.
FullInputs ==
    {FileBytes(m, o, r, ArchiveBytes(n, pb, sb, wb, pk)) :
        m \in Markers, o \in Offsets, r \in Regions, n \in NameLists,
        pb \in RecordBytes, sb \in RecordBytes, wb \in WorldBytes, pk \in Packings}

\* Files cut short: every prefix that ends in or right after the header region.
TruncatedInputs ==
    {Take(FileBytes(m, o, r,
                    ArchiveBytes(<<PlayerName, StateName>>, <<0>>, <<0>>, <<>>,
                                 <<MethodDeflate, DefaultLevel>>)), k) :
        m \in Markers, o \in Offsets, r \in Regions, k \in 0..(HeaderLen + MaxRegion + 1)}

Inputs == FullInputs \cup TruncatedInputs

\* ------------------------------------------------------------------- state

VARIABLES
    pc,        \* where the caller is: "loaded", "decoded", a line of serialize, "done", "failed"
    gen,       \* the generation: 1 for the file read, 2 for its re-encoding, ...
    file,      \* the file the first generation read
    input,     \* the buffer given to deserialize
    result,    \* what deserialize returned
    output,    \* the caller's output Vec<u8>
    zipper,    \* the ZipWriter of serialize and the buffer (zip) it writes
    events,    \* the archive operations of the current serialize call, in order
    outs,      \* the buffers the successful serialize calls produced, in order
    saves      \* the values the successful deserialize calls returned, in order

vars == <<pc, gen, file, input, result, output, zipper, events, outs, saves>>

NoResult == [tag |-> "None", kind |-> "", name |-> "", save |-> <<>>]

Init ==
    /\ file \in Inputs
    /\ input = file
    /\ pc = "loaded"
    /\ gen = 1
    /\ result = NoResult
    /\ output = <<>>
    /\ zipper = ZipWriterNew
    /\ events = <<>>
    /\ outs = <<>>
    /\ saves = <<>>

\* let me1_save_game = Me1SaveGame::deserialize(&mut cursor), in a build with
\* or without overflow checks.
DoDeserialize ==
    /\ pc = "loaded"
    /\ \E checks \in BOOLEAN : result' = Deserialize(input, checks)
    /\ pc' = "decoded"
    /\ saves' = IF result'.tag = "Ok" THEN saves \o result'.save ELSE saves
    /\ UNCHANGED <<gen, file, input, output, zipper, events, outs>>

\* -------------------------------------------------- Me1SaveGame::serialize

\* self of the serialize call: the value the last deserialize returned.
Me == result.save[1]

\* Mutant of WriteBegin: eight zero bytes instead of the marker read.
WriteBeginZeroed(me, out) == out \o <<0, 0, 0, 0, 0, 0, 0, 0>>

\* _begin.serialize(output)?
WriteBegin(me, out) == out \o me.begin

\* zip_offset.serialize(output)?
WriteZipOffset(me, out) == out \o U32ToBytes(me.zip_offset)

\* output.extend(_no_mans_land)
WriteNoMansLand(me, out) == out \o me.no_mans_land

\* The names serialize starts files under, in the order of its blocks.
PlayerEntry == PlayerName

\* Mutant of StateEntry: the State block copied from the Player block, name
\* and all.
StateEntryCopied == PlayerName

StateEntry == StateName

WorldEntry == WorldName

\* let mut output = Vec::new(); Me1SaveGame::serialize(&me1_save_game, &mut output)
\* up to line 71.
SerBegin ==
    /\ pc = "decoded"
    /\ result.tag = "Ok"
    /\ output' = WriteBegin(Me, <<>>)
    /\ zipper' = ZipWriterNew
    /\ events' = <<>>
    /\ pc' = "L72"
    /\ UNCHANGED <<gen, file, input, result, outs, saves>>

SerZipOffset ==
    /\ pc = "L72"
    /\ output' = WriteZipOffset(Me, output)
    /\ pc' = "L73"
    /\ UNCHANGED <<gen, file, input, result, zipper, events, outs, saves>>

SerNoMansLand ==
    /\ pc = "L73"
    /\ output' = WriteNoMansLand(Me, output)
    /\ pc' = "L75"
    /\ UNCHANGED <<gen, file, input, result, zipper, events, outs, saves>>

\* let mut zip = Vec::new(); let mut zipper = ZipWriter::new(Cursor::new(&mut zip))
SerZipNew ==
    /\ pc = "L75"
    /\ zipper' = ZipWriterNew
    /\ events' = <<"new">>
    /\ pc' = "L83"
    /\ UNCHANGED <<gen, file, input, result, output, outs, saves>>

\* A ? inside the writer's block returns early: the writer goes out of scope
\* (and finalizes into zip, which is dropped with it) and the caller gets Err.
SerReturnErr ==
    /\ zipper' = ZipFinalize(zipper)
    /\ events' = events \o <<"finalize">>
    /\ pc' = "failed"
    /\ UNCHANGED <<gen, file, input, result, output, outs, saves>>

\* The Player block: player.serialize(&mut player_data)?, start_file, write_all.
SerPlayer ==
    /\ pc = "L83"
    /\ \/ /\ zipper' = ZipWriteFile(zipper, PlayerEntry, PlayerEncode(Me.player))
          /\ events' = events \o <<PlayerEntry>>
          /\ pc' = "L90"
          /\ UNCHANGED <<gen, file, input, result, output, outs, saves>>
       \/ SerReturnErr

\* The State block.
SerState ==
    /\ pc = "L90"
    /\ \/ /\ zipper' = ZipWriteFile(zipper, StateEntry, StateEncode(Me.state))
          /\ events' = events \o <<StateEntry>>
          /\ pc' = "L95"
          /\ UNCHANGED <<gen, file, input, result, output, outs, saves>>
       \/ SerReturnErr

\* The WorldSavePackage block: if let Some(_world_save_package) = ...
SerWorldSavePackage ==
    /\ pc = "L95"
    /\ IF Me.world_save_package # <<>>
       THEN /\ zipper' = ZipWriteFile(zipper, WorldEntry,
                                      WorldSerialize(Me.world_save_package[1], <<>>))
            /\ events' = events \o <<WorldEntry>>
       ELSE UNCHANGED <<zipper, events>>
    /\ pc' = "L101"
    /\ UNCHANGED <<gen, file, input, result, output, outs, saves>>

\* Mutant of SerDropZipper: the writer is forgotten, not dropped, and never
\* finalizes.
SerDropZipperForgotten ==
    /\ pc = "L101"
    /\ pc' = "L102"
    /\ UNCHANGED <<gen, file, input, result, output, zipper, events, outs, saves>>

\* The closing brace of the writer's block: zipper goes out of scope.
SerDropZipper ==
    /\ pc = "L101"
    /\ zipper' = ZipFinalize(zipper)
    /\ events' = events \o <<"finalize">>
    /\ pc' = "L102"
    /\ UNCHANGED <<gen, file, input, result, output, outs, saves>>

\* output.extend(&zip); Ok(())
SerExtend ==
    /\ pc = "L102"
    /\ output' = output \o zipper.buf
    /\ events' = events \o <<"extend">>
    /\ outs' = outs \o <<output'>>
    /\ pc' = "done"
    /\ UNCHANGED <<gen, file, input, result, zipper, saves>>

\* let mut cursor = SaveCursor::new(output.clone()): the buffer written is
\* read again.
Reload ==
    /\ pc = "done"
    /\ gen < MaxGen
    /\ input' = output
    /\ gen' = gen + 1
    /\ result' = NoResult
    /\ pc' = "loaded"
    /\ UNCHANGED <<file, output, zipper, events, outs, saves>>

Next ==
    \/ DoDeserialize
    \/ SerBegin
    \/ SerZipOffset
    \/ SerNoMansLand
    \/ SerZipNew
    \/ SerPlayer
    \/ SerState
    \/ SerWorldSavePackage
    \/ SerDropZipper
    \/ SerExtend
    \/ Reload

Spec == Init /\ [][Next]_vars

\* ------------------------------------------------- what the claims speak of

\* The zip_offset a buffer of at least 12 bytes stores at bytes 8..12.
StoredOffset(buf) == U32FromBytes(SubSeq(buf, BeginLen + 1, HeaderLen))

\* The header is whole and the buffer reaches the offset it stores.
WellFormedHeader(buf) ==
    /\ Len(buf) >= HeaderLen
    /\ StoredOffset(buf) >= HeaderLen
    /\ Len(buf) >= StoredOffset(buf)

\* The archive a buffer with a well-formed header holds from its offset on.
ArchiveOf(buf) == ZipOpen(Drop(buf, StoredOffset(buf)))

EntryNames(zip) == [i \in 1..Len(zip.entries) |-> zip.entries[i].name]

IsPrefix(s, t) == Len(s) <= Len(t) /\ SubSeq(t, 1, Len(s)) = s

\* The entries serialize is to write for a value, in order.
ExpectedEntries(me) ==
    <<PlayerName, StateName>> \o (IF me.world_save_package # <<>> THEN <<WorldName>> ELSE <<>>)

\* The entry names among the archive operations logged so far.
WrittenEntries == SelectSeq(events, LAMBDA e : e \in Names)

\* ------------------------------------------------------------------ claims

\* C1: round-trip stability.  Once a file has decoded, the buffer written
\* from the value decoded decodes again, and the buffer written from that
\* second value is the first buffer, byte for byte and in length.
C1_RoundTripStable ==
    /\ \A i \in 1..(Len(outs) - 1) :
          Len(outs[i]) = Len(outs[i + 1]) /\ outs[i] = outs[i + 1]
    /\ (gen >= 2 /\ pc = "decoded") => result.tag = "Ok"

\* C1 happens: two generations were written, and the first differs from the
\* file read (its entries were packed otherwise).
C1_Witness ==
    /\ pc = "done"
    /\ Len(outs) = 2
    /\ outs[1] = outs[2]
    /\ outs[1] # file

C3_InvalidOffset ==
    (pc = "decoded" /\ Len(input) >= HeaderLen /\ StoredOffset(input) < HeaderLen)
    => result = Err("InvalidOffset", "")

\* C4: a buffer shorter than the 12-byte header, or shorter than the
\* zip_offset (of 12 or more) it stores, makes decode return TruncatedInput,
\* and no value.
C4_Truncated ==
    (pc = "decoded"
        /\ \/ Len(input) < HeaderLen
           \/ StoredOffset(input) >= HeaderLen /\ Len(input) < StoredOffset(input))
    => result = Err("TruncatedInput", "")

\* C4 happens: the header is whole, the buffer ends before its offset.
C4_Witness ==
    /\ pc = "decoded"
    /\ Len(input) >= HeaderLen
    /\ StoredOffset(input) > HeaderLen
    /\ Len(input) < StoredOffset(input)
    /\ result.kind = "TruncatedInput"

\* C5: after a successful decode the world package is set exactly when the
\* buffer's archive has a WorldSavePackage.sav entry, and then holds that
\* entry's decompressed bytes; the archive written has such an entry, with
\* those bytes, exactly when the package is set.
C5_WorldPackageFidelity ==
    /\ (pc = "decoded" /\ result.tag = "Ok")
       => LET a == ArchiveOf(input)
          IN  /\ (Me.world_save_package # <<>>) <=> (WorldName \in ZipFileNames(a))
              /\ Me.world_save_package # <<>>
                   => Me.world_save_package[1].data = ZipByName(a, WorldName).data
    /\ pc = "done"
       => LET b == ArchiveOf(output)
          IN  /\ b.ok
              /\ (WorldName \in ZipFileNames(b)) <=> (Me.world_save_package # <<>>)
              /\ Me.world_save_package # <<>>
                   => ZipByName(b, WorldName) =
                        [status |-> "ok", data |-> Me.world_save_package[1].data]

\* C5 happens: a file with a two-byte world package was decoded and written.
C5_Witness ==
    /\ pc = "done"
    /\ gen = 1
    /\ WorldName \in ZipFileNames(ArchiveOf(file))
    /\ Me.world_save_package = <<[data |-> <<5, 6>>]>>
    /\ WorldName \in ZipFileNames(ArchiveOf(output))

\* C6: the marker and the region of the value decoded from a written buffer
\* are those of the value written, and the bytes written up to zip_offset are
\* the bytes read up to zip_offset.
C6_OpaquePreserved ==
    /\ \A i \in 1..(Len(saves) - 1) :
          /\ saves[i + 1].begin = saves[i].begin
          /\ saves[i + 1].no_mans_land = saves[i].no_mans_land
    /\ pc = "done"
       => /\ Len(output) >= Me.zip_offset
          /\ Take(output, Me.zip_offset) = Take(input, Me.zip_offset)
          /\ Len(Me.begin) = BeginLen

\* C6 happens: a value with a non-empty region was written, read and written.
C6_Witness ==
    /\ pc = "done"
    /\ Len(saves) = 2
    /\ Len(saves[2].no_mans_land) = 2
    /\ saves[2].begin = SubSeq(file, 1, BeginLen)

\* C7: in every buffer serialize produced, the zip_offset at bytes 8..12 is
\* 12 plus the length of the region written, and the archive written starts
\* at that offset.
C7_OffsetMatchesLayout ==
    pc = "done"
    => /\ StoredOffset(output) = HeaderLen + Len(Me.no_mans_land)
       /\ Drop(output, StoredOffset(output)) = zipper.buf
       /\ Len(output) = StoredOffset(output) + Len(zipper.buf)

\* C7 happens: a buffer with a region of two bytes was written.
C7_Witness ==
    /\ pc = "done"
    /\ StoredOffset(output) = HeaderLen + 2
    /\ Len(Me.no_mans_land) = 2

\* C8: serialize writes player.sav, then state.sav, then WorldSavePackage.sav
\* only when the package is set, each at most once; without the package the
\* archive holds exactly the two entries (player, state).
C8_EntryOrder ==
    /\ pc \in {"L83", "L90", "L95", "L101", "L102", "done", "failed"}
       => IsPrefix(WrittenEntries, ExpectedEntries(Me))
    /\ pc \in {"L102", "done"}
       => /\ WrittenEntries = ExpectedEntries(Me)
          /\ ZipOpen(zipper.buf).ok
          /\ EntryNames(ZipOpen(zipper.buf)) = ExpectedEntries(Me)

\* C8 happens: a value without the package was written as two entries.
C8_Witness ==
    /\ pc = "done"
    /\ Me.world_save_package = <<>>
    /\ EntryNames(ArchiveOf(output)) = <<PlayerName, StateName>>

\* C9: when the encode of a nested record fails, serialize returns the failure
\* and the caller's output buffer is as it was before the call.
C9_EncodeFailureAtomic ==
    pc = "failed" => output = <<>>

\* C10: in a successful encode the writer is finalized exactly once, after the
\* last entry and before the archive bytes are appended, no entry is written
\* after it, and the bytes appended are an archive decode can open.
C10_FinalizedOnce ==
    /\ \A i \in 1..Len(events) : \A j \in 1..Len(events) :
          (events[i] = "finalize" /\ i < j) => events[j] \notin Names
    /\ pc = "done"
       => /\ Cardinality({i \in 1..Len(events) : events[i] = "finalize"}) = 1
          /\ events = <<"new">> \o WrittenEntries \o <<"finalize", "extend">>
          /\ zipper.closed
          /\ ArchiveOf(output).ok
          /\ Len(ArchiveOf(output).entries) = Len(WrittenEntries)

\* C10 happens: three entries were written, then the writer was finalized,
\* then the archive was appended.
C10_Witness ==
    /\ pc = "done"
    /\ events = <<"new", PlayerName, StateName, WorldName, "finalize", "extend">>
    /\ ZipOpen(Drop(output, Me.zip_offset)).ok

=============================================================================
